---- MODULE Spec2Model ----
(***************************************************************************)
(* Model of the scheduling core of obsidian-task-scheduler                 *)
(* (src/services/Scheduler.ts): slot-grid generation, task ranking, the    *)
(* consecutive-slot finder and the two-pass placement of scheduleTasks.    *)
(*                                                                         *)
(* Instants are minutes counted from local midnight of the day of the      *)
(* run's startDate.  A task is referred to by its position in `tasks` (the *)
(* code shares Task objects by reference), a slot by its position in       *)
(* `availableSlots`.                                                       *)
(***************************************************************************)
EXTENDS Integers, Sequences, FiniteSets, TLC

\* ---------------------------------------------------------------- bounds
MaxTasks == 3
MaxDays == 2
MaxHorizon == 3
MaxNeeded == 4

\* ------------------------------------------------------- program constants
slotDuration == 30
urgentThreshold == 48 * 60
MinutesPerDay == 24 * 60
\* `undefined` for the optional Date fields deadline / scheduledTime
Undefined == -1
\* `undefined` for TimeSlot.task
NoTask == 0

\* ------------------------------------------------------------ input domain
Priorities == {1, 5}
TimeEstimates == {45, 90}
\* the clock reads 09:10 on the first day
NowValues == {9 * 60 + 10}
\* none; 10:10 on the first day (one hour from now); 10:00 on the fourth day
Deadlines == {Undefined, 10 * 60 + 10, 3 * MinutesPerDay + 10 * 60}
TaskDomain ==
  [priority : Priorities, timeEstimate : TimeEstimates,
   deadline : Deadlines, scheduledTime : {Undefined}]
\* the start date is a Thursday (0 = Sunday)
StartDays == {4}
\* the horizon scheduleTasks uses when the caller passes none
DefaultDays == 14
\* 09:00-11:15, on Monday to Friday or on Thursday and Saturday
SettingsDomain ==
  [workingHoursStart : {9 * 60}, workingHoursEnd : {11 * 60 + 15},
   workingDays : {{1, 2, 3, 4, 5}, {4, 6}}]

VARIABLES
  settings,        \* Scheduler.settings (working hours in minutes, working days)
  startDay,        \* startDate.getDay()
  daysToSchedule,  \* the horizon argument of scheduleTasks
  now,             \* the clock read by the ranking comparator
  tasks,           \* the Task objects handed to scheduleTasks
  sortedTasks,     \* scheduleTasks' local: task references in ranked order
  availableSlots,  \* scheduleTasks' local: the slot grid
  pc,              \* position inside scheduleTasks
  idx,             \* position of the running for-of loop in sortedTasks
  pass1Placed,     \* tasks for which scheduleTaskWithDeadline returned true
  findSlots,       \* argument `slots` of the last findConsecutiveSlots call
  findNeeded,      \* argument `slotsNeeded` of that call
  findResult,      \* what that call returned
  fileLines,       \* the lines of the note in the vault
  op,              \* the Scheduler or view method that is running
  nextId,          \* source of the ids of new Task objects
  persistIdx,      \* position of scheduleAllTasks' update loop
  updatedCount,    \* scheduleAllTasks' local updatedCount
  persistLog,      \* what each updateTaskInFile call of the run returned
  history,         \* the calls finished so far, with what they returned
  scheduledTasks,  \* SchedulerView.scheduledTasks
  timeSlots,       \* SchedulerView.timeSlots
  runs             \* the scheduleAllTasks calls that run side by side

vaultVars == <<fileLines, op, nextId, persistIdx, updatedCount, persistLog,
               history, scheduledTasks, timeSlots, runs>>

vars == <<settings, startDay, daysToSchedule, now, tasks, sortedTasks,
          availableSlots, pc, idx, pass1Placed, findSlots, findNeeded,
          findResult, fileLines, op, nextId, persistIdx, updatedCount,
          persistLog, history, scheduledTasks, timeSlots, runs>>

\* no note, no view, no call of the vault methods
VaultIdle ==
  /\ fileLines = <<>>
  /\ op = "none"
  /\ nextId = 0
  /\ persistIdx = 0
  /\ updatedCount = 0
  /\ persistLog = <<>>
  /\ history = <<>>
  /\ scheduledTasks = <<>>
  /\ timeSlots = <<>>
  /\ runs = <<>>

Range(s) == {s[i] : i \in 1..Len(s)}

\* Math.floor in the place of Math.ceil
Floor(a, b) == a \div b

\* Math.ceil(a / b) for a >= 0, b > 0
Ceil(a, b) == (a + b - 1) \div b

\* ------------------------------------------------------ generateTimeSlots
\* the day loop without the `if (slotEnd <= dayEnd)` of line 124
RECURSIVE DaySlotsPartial(_, _)
DaySlotsPartial(slotStart, dayEnd) ==
  IF slotStart < dayEnd
  THEN LET slotEnd == slotStart + slotDuration
       IN <<[startTime |-> slotStart, endTime |-> slotEnd, task |-> NoTask]>>
          \o DaySlotsPartial(slotEnd, dayEnd)
  ELSE <<>>

RECURSIVE DaySlots(_, _)
DaySlots(slotStart, dayEnd) ==
  IF slotStart < dayEnd
  THEN LET slotEnd == slotStart + slotDuration
       IN (IF slotEnd <= dayEnd
           THEN <<[startTime |-> slotStart, endTime |-> slotEnd, task |-> NoTask]>>
           ELSE <<>>) \o DaySlots(slotEnd, dayEnd)
  ELSE <<>>

\* the horizon loop testing the weekday after the date was advanced
RECURSIVE GenerateFromNextWeekday(_, _, _, _)
GenerateFromNextWeekday(day, days, dow, s) ==
  IF day < days
  THEN LET currentDate == day * MinutesPerDay
           today == IF ((dow + day + 1) % 7) \in s.workingDays
                    THEN DaySlots(currentDate + s.workingHoursStart,
                                  currentDate + s.workingHoursEnd)
                    ELSE <<>>
       IN today \o GenerateFromNextWeekday(day + 1, days, dow, s)
  ELSE <<>>

\* the horizon loop without the `setDate(getDate() + 1)` of line 137
RECURSIVE GenerateFromSameDay(_, _, _, _)
GenerateFromSameDay(day, days, dow, s) ==
  IF day < days
  THEN LET today == IF (dow % 7) \in s.workingDays
                    THEN DaySlots(s.workingHoursStart, s.workingHoursEnd)
                    ELSE <<>>
       IN today \o GenerateFromSameDay(day + 1, days, dow, s)
  ELSE <<>>

RECURSIVE GenerateFrom(_, _, _, _)
GenerateFrom(day, days, dow, s) ==
  IF day < days
  THEN LET currentDate == day * MinutesPerDay
           today == IF ((dow + day) % 7) \in s.workingDays
                    THEN DaySlots(currentDate + s.workingHoursStart,
                                  currentDate + s.workingHoursEnd)
                    ELSE <<>>
       IN today \o GenerateFrom(day + 1, days, dow, s)
  ELSE <<>>

generateTimeSlots(dow, days, s) == GenerateFrom(0, days, dow, s)

\* ---------------------------------------------------- sortTasksByPriority
IsUrgent(t, n) == t.deadline # Undefined /\ t.deadline - n < urgentThreshold

\* the comparator with the priority rule ahead of the urgency rule
CompareTasksPriorityFirst(a, b, n) ==
  LET aIsUrgent == IsUrgent(a, n)
      bIsUrgent == IsUrgent(b, n)
  IN IF a.priority # b.priority THEN a.priority - b.priority
     ELSE IF aIsUrgent /\ ~bIsUrgent THEN -1
     ELSE IF ~aIsUrgent /\ bIsUrgent THEN 1
     ELSE IF a.deadline # Undefined /\ b.deadline # Undefined
          THEN a.deadline - b.deadline
     ELSE IF a.deadline # Undefined /\ b.deadline = Undefined THEN -1
     ELSE IF a.deadline = Undefined /\ b.deadline # Undefined THEN 1
     ELSE a.timeEstimate - b.timeEstimate

\* the comparator with the urgency rule testing one side only
\* (`if (aIsUrgent) return -1; if (bIsUrgent) return 1;`)
CompareTasksUrgentOneSided(a, b, n) ==
  LET aIsUrgent == IsUrgent(a, n)
      bIsUrgent == IsUrgent(b, n)
  IN IF aIsUrgent THEN -1
     ELSE IF bIsUrgent THEN 1
     ELSE IF a.priority # b.priority THEN a.priority - b.priority
     ELSE IF a.deadline # Undefined /\ b.deadline # Undefined
          THEN a.deadline - b.deadline
     ELSE IF a.deadline # Undefined /\ b.deadline = Undefined THEN -1
     ELSE IF a.deadline = Undefined /\ b.deadline # Undefined THEN 1
     ELSE a.timeEstimate - b.timeEstimate

\* the comparator with the priority difference taken the other way round
CompareTasksPriorityReversed(a, b, n) ==
  LET aIsUrgent == IsUrgent(a, n)
      bIsUrgent == IsUrgent(b, n)
  IN IF aIsUrgent /\ ~bIsUrgent THEN -1
     ELSE IF ~aIsUrgent /\ bIsUrgent THEN 1
     ELSE IF a.priority # b.priority THEN b.priority - a.priority
     ELSE IF a.deadline # Undefined /\ b.deadline # Undefined
          THEN a.deadline - b.deadline
     ELSE IF a.deadline # Undefined /\ b.deadline = Undefined THEN -1
     ELSE IF a.deadline = Undefined /\ b.deadline # Undefined THEN 1
     ELSE a.timeEstimate - b.timeEstimate

\* the comparator handed to Array.prototype.sort
CompareTasks(a, b, n) ==
  LET aIsUrgent == IsUrgent(a, n)
      bIsUrgent == IsUrgent(b, n)
  IN IF aIsUrgent /\ ~bIsUrgent THEN -1
     ELSE IF ~aIsUrgent /\ bIsUrgent THEN 1
     ELSE IF a.priority # b.priority THEN a.priority - b.priority
     ELSE IF a.deadline # Undefined /\ b.deadline # Undefined
          THEN a.deadline - b.deadline
     ELSE IF a.deadline # Undefined /\ b.deadline = Undefined THEN -1
     ELSE IF a.deadline = Undefined /\ b.deadline # Undefined THEN 1
     ELSE a.timeEstimate - b.timeEstimate

\* Array.prototype.sort is stable: an element is placed after every earlier
\* element that does not compare greater than it.
RECURSIVE InsertSorted(_, _, _, _)
InsertSorted(sorted, x, ts, n) ==
  IF sorted = <<>> THEN <<x>>
  ELSE LET last == sorted[Len(sorted)]
       IN IF CompareTasks(ts[x], ts[last], n) < 0
          THEN Append(InsertSorted(SubSeq(sorted, 1, Len(sorted) - 1), x, ts, n), last)
          ELSE Append(sorted, x)

RECURSIVE SortFrom(_, _, _, _, _)
SortFrom(refs, i, acc, ts, n) ==
  IF i > Len(refs) THEN acc
  ELSE SortFrom(refs, i + 1, InsertSorted(acc, refs[i], ts, n), ts, n)

\* refs: a sequence of task references; the result is a new sequence
sortTasksByPriority(refs, ts, n) == SortFrom(refs, 1, <<>>, ts, n)

\* ---------------------------------------------------- findConsecutiveSlots
\* findConsecutiveSlots without the `if (slot.task) continue` of line 241
RECURSIVE FindScanNoSkip(_, _, _, _, _, _)
FindScanNoSkip(slots, grid, slotsNeeded, i, consecutiveSlots, lastSlotTime) ==
  IF i > Len(slots) THEN <<>>
  ELSE LET slot == grid[slots[i]]
           kept == IF lastSlotTime # Undefined /\ slot.startTime # lastSlotTime
                   THEN <<>> ELSE consecutiveSlots
           next == Append(kept, slots[i])
       IN IF Len(next) >= slotsNeeded
          THEN SubSeq(next, 1, slotsNeeded)
          ELSE FindScanNoSkip(slots, grid, slotsNeeded, i + 1, next, slot.endTime)

\* findConsecutiveSlots without the reset of lines 244-247: a slot that does
\* not follow the last accepted one is added to the run all the same.
RECURSIVE FindScanNoReset(_, _, _, _, _, _)
FindScanNoReset(slots, grid, slotsNeeded, i, consecutiveSlots, lastSlotTime) ==
  IF i > Len(slots) THEN <<>>
  ELSE LET slot == grid[slots[i]]
       IN IF slot.task # NoTask
          THEN FindScanNoReset(slots, grid, slotsNeeded, i + 1, consecutiveSlots,
                               lastSlotTime)
          ELSE LET next == Append(consecutiveSlots, slots[i])
               IN IF Len(next) >= slotsNeeded
                  THEN SubSeq(next, 1, slotsNeeded)
                  ELSE FindScanNoReset(slots, grid, slotsNeeded, i + 1, next,
                                       slot.endTime)

\* slots: a sequence of references into grid (the array the code is handed)
RECURSIVE FindScan(_, _, _, _, _, _)
FindScan(slots, grid, slotsNeeded, i, consecutiveSlots, lastSlotTime) ==
  IF i > Len(slots) THEN <<>>
  ELSE LET slot == grid[slots[i]]
       IN IF slot.task # NoTask
          THEN FindScan(slots, grid, slotsNeeded, i + 1, consecutiveSlots, lastSlotTime)
          ELSE LET kept == IF lastSlotTime # Undefined /\ slot.startTime # lastSlotTime
                           THEN <<>> ELSE consecutiveSlots
                   next == Append(kept, slots[i])
               IN IF Len(next) >= slotsNeeded
                  THEN SubSeq(next, 1, slotsNeeded)
                  ELSE FindScan(slots, grid, slotsNeeded, i + 1, next, slot.endTime)

findConsecutiveSlots(slots, grid, slotsNeeded) ==
  FindScan(slots, grid, slotsNeeded, 1, <<>>, Undefined)

\* ------------------------------------------------------- assignTaskToSlots
\* ------------------------------------------------------- assignTaskToSlots
\* assignTaskToSlots taking scheduledTime from the last slot of the block
assignTaskToSlotsLast(t, slots, grid, ts) ==
  IF slots = <<>>
  THEN [grid |-> grid, tasks |-> ts, threw |-> TRUE]
  ELSE [grid |-> [i \in 1..Len(grid) |->
                    IF i \in Range(slots) THEN [grid[i] EXCEPT !.task = t]
                    ELSE grid[i]],
        tasks |-> [ts EXCEPT ![t].scheduledTime = grid[slots[Len(slots)]].startTime],
        threw |-> FALSE]

\* slots[0].startTime of an empty array raises a TypeError after the
\* (empty) loop: threw is TRUE and nothing has been written.
assignTaskToSlots(t, slots, grid, ts) ==
  IF slots = <<>>
  THEN [grid |-> grid, tasks |-> ts, threw |-> TRUE]
  ELSE [grid |-> [i \in 1..Len(grid) |->
                    IF i \in Range(slots) THEN [grid[i] EXCEPT !.task = t]
                    ELSE grid[i]],
        tasks |-> [ts EXCEPT ![t].scheduledTime = grid[slots[1]].startTime],
        threw |-> FALSE]

\* the deadline filter testing slot.startTime instead of slot.endTime
RECURSIVE FilterFromStart(_, _, _)
FilterFromStart(grid, i, deadline) ==
  IF i > Len(grid) THEN <<>>
  ELSE (IF grid[i].task = NoTask /\ grid[i].startTime <= deadline
        THEN <<i>> ELSE <<>>) \o FilterFromStart(grid, i + 1, deadline)

\* the references of the elements of grid that pass the filter
RECURSIVE FilterFrom(_, _, _)
FilterFrom(grid, i, deadline) ==
  IF i > Len(grid) THEN <<>>
  ELSE (IF grid[i].task = NoTask /\ grid[i].endTime <= deadline
        THEN <<i>> ELSE <<>>) \o FilterFrom(grid, i + 1, deadline)

AllSlots(grid) == [i \in 1..Len(grid) |-> i]

Unplaced(grid, ts, slots, needed) ==
  [grid |-> grid, tasks |-> ts, threw |-> FALSE, returned |-> FALSE,
   called |-> FALSE, slots |-> slots, needed |-> needed, found |-> <<>>]

\* placement without the `consecutiveSlots.length >= slotsNeeded` test
PlaceFoundUnchecked(t, grid, ts, slots, needed) ==
  LET consecutiveSlots == findConsecutiveSlots(slots, grid, needed)
      a == assignTaskToSlots(t, consecutiveSlots, grid, ts)
  IN [grid |-> a.grid, tasks |-> a.tasks, threw |-> a.threw,
      returned |-> ~a.threw, called |-> TRUE, slots |-> slots,
      needed |-> needed, found |-> consecutiveSlots]

PlaceFound(t, grid, ts, slots, needed) ==
  LET consecutiveSlots == findConsecutiveSlots(slots, grid, needed)
  IN IF Len(consecutiveSlots) >= needed
     THEN LET a == assignTaskToSlots(t, consecutiveSlots, grid, ts)
          IN [grid |-> a.grid, tasks |-> a.tasks, threw |-> a.threw,
              returned |-> ~a.threw, called |-> TRUE, slots |-> slots,
              needed |-> needed, found |-> consecutiveSlots]
     ELSE [Unplaced(grid, ts, slots, needed) EXCEPT
             !.called = TRUE, !.found = consecutiveSlots]

\* ------------------------------------------------ scheduleTaskWithDeadline
\* a first pass that never places anything
scheduleTaskWithDeadlineNever(t, grid, ts) == Unplaced(grid, ts, <<>>, 0)

scheduleTaskWithDeadline(t, grid, ts) ==
  IF ts[t].deadline = Undefined THEN Unplaced(grid, ts, <<>>, 0)
  ELSE LET deadlineSlots == FilterFrom(grid, 1, ts[t].deadline)
       IN IF Len(deadlineSlots) = 0 THEN Unplaced(grid, ts, <<>>, 0)
          ELSE PlaceFound(t, grid, ts, deadlineSlots,
                          Ceil(ts[t].timeEstimate, 30))

\* ---------------------------------------------------- scheduleTaskAnywhere
scheduleTaskAnywhere(t, grid, ts) ==
  PlaceFound(t, grid, ts, AllSlots(grid), Ceil(ts[t].timeEstimate, 30))

\* ------------------------------------------------------------ scheduleTasks
Init ==
  /\ settings \in SettingsDomain
  /\ startDay \in StartDays
  /\ daysToSchedule \in {1, MaxDays}
  /\ now \in NowValues
  /\ tasks \in UNION {[1..n -> TaskDomain] : n \in 0..MaxTasks}
  /\ sortedTasks = <<>>
  /\ availableSlots = <<>>
  /\ pc = "start"
  /\ idx = 0
  /\ pass1Placed = {}
  /\ findSlots = <<>>
  /\ findNeeded = 0
  /\ findResult = <<>>
  /\ VaultIdle

\* ranking that goes straight to the second pass
RankSinglePass ==
  /\ pc = "start"
  /\ sortedTasks' = sortTasksByPriority([i \in 1..Len(tasks) |-> i], tasks, now)
  /\ availableSlots' = generateTimeSlots(startDay, daysToSchedule, settings)
  /\ pc' = "pass2"
  /\ idx' = 1
  /\ UNCHANGED <<settings, startDay, daysToSchedule, now, tasks, pass1Placed,
                 findSlots, findNeeded, findResult>>
  /\ UNCHANGED vaultVars

\* lines 377-381: rank the tasks, build the grid
Rank ==
  /\ pc = "start"
  /\ sortedTasks' = sortTasksByPriority([i \in 1..Len(tasks) |-> i], tasks, now)
  /\ availableSlots' = generateTimeSlots(startDay, daysToSchedule, settings)
  /\ pc' = "pass1"
  /\ idx' = 1
  /\ UNCHANGED <<settings, startDay, daysToSchedule, now, tasks, pass1Placed,
                 findSlots, findNeeded, findResult>>
  /\ UNCHANGED vaultVars

RecordFind(r) ==
  IF r.called
  THEN /\ findSlots' = [i \in 1..Len(r.slots) |-> availableSlots[r.slots[i]]]
       /\ findNeeded' = r.needed
       /\ findResult' = [i \in 1..Len(r.found) |-> availableSlots[r.found[i]]]
  ELSE UNCHANGED <<findSlots, findNeeded, findResult>>

\* lines 384-388: one iteration of the first pass
Pass1Step ==
  /\ pc = "pass1"
  /\ idx <= Len(sortedTasks)
  /\ LET t == sortedTasks[idx]
         r == scheduleTaskWithDeadline(t, availableSlots, tasks)
     IN IF tasks[t].deadline # Undefined
        THEN /\ availableSlots' = r.grid
             /\ tasks' = r.tasks
             /\ pass1Placed' = IF r.returned THEN pass1Placed \cup {t} ELSE pass1Placed
             /\ pc' = IF r.threw THEN "threw" ELSE pc
             /\ idx' = idx + 1
             /\ RecordFind(r)
        ELSE /\ idx' = idx + 1
             /\ UNCHANGED <<availableSlots, tasks, pass1Placed, pc, findSlots,
                            findNeeded, findResult>>
  /\ UNCHANGED <<settings, startDay, daysToSchedule, now, sortedTasks>>
  /\ UNCHANGED vaultVars

\* the end of the first loop starting the first loop again
Pass1DoneRestart ==
  /\ pc = "pass1"
  /\ idx > Len(sortedTasks)
  /\ pc' = "pass1"
  /\ idx' = 1
  /\ UNCHANGED <<settings, startDay, daysToSchedule, now, tasks, sortedTasks,
                 availableSlots, pass1Placed, findSlots, findNeeded, findResult>>
  /\ UNCHANGED vaultVars

Pass1Done ==
  /\ pc = "pass1"
  /\ idx > Len(sortedTasks)
  /\ pc' = "pass2"
  /\ idx' = 1
  /\ UNCHANGED <<settings, startDay, daysToSchedule, now, tasks, sortedTasks,
                 availableSlots, pass1Placed, findSlots, findNeeded, findResult>>
  /\ UNCHANGED vaultVars

\* lines 391-395: one iteration of the second pass
Pass2Step ==
  /\ pc = "pass2"
  /\ idx <= Len(sortedTasks)
  /\ LET t == sortedTasks[idx]
         r == scheduleTaskAnywhere(t, availableSlots, tasks)
     IN IF tasks[t].scheduledTime = Undefined
        THEN /\ availableSlots' = r.grid
             /\ tasks' = r.tasks
             /\ pc' = IF r.threw THEN "threw" ELSE pc
             /\ idx' = idx + 1
             /\ RecordFind(r)
        ELSE /\ idx' = idx + 1
             /\ UNCHANGED <<availableSlots, tasks, pc, findSlots, findNeeded,
                            findResult>>
  /\ UNCHANGED <<settings, startDay, daysToSchedule, now, sortedTasks,
                 pass1Placed>>
  /\ UNCHANGED vaultVars

\* the end of scheduleTasks writing the note itself: the line of the first
\* ranked task that has a scheduledTime is rewritten before the caller's
\* update loop starts
ReturnWritingFirst ==
  /\ pc = "pass2"
  /\ idx > Len(sortedTasks)
  /\ pc' = "done"
  /\ fileLines' =
       IF \E k \in 1..Len(sortedTasks) :
            /\ tasks[sortedTasks[k]].scheduledTime # Undefined
            /\ "lineNumber" \in DOMAIN tasks[sortedTasks[k]]
       THEN LET k == CHOOSE k \in 1..Len(sortedTasks) :
                       /\ tasks[sortedTasks[k]].scheduledTime # Undefined
                       /\ "lineNumber" \in DOMAIN tasks[sortedTasks[k]]
                t == tasks[sortedTasks[k]]
            IN [fileLines EXCEPT ![t.lineNumber + 1].body =
                  Append(@, [kind |-> "scheduled", num |-> t.scheduledTime,
                             name |-> ""])]
       ELSE fileLines
  /\ UNCHANGED <<settings, startDay, daysToSchedule, now, tasks, sortedTasks,
                 availableSlots, idx, pass1Placed, findSlots, findNeeded,
                 findResult, op, nextId, persistIdx, updatedCount, persistLog,
                 history, scheduledTasks, timeSlots>>
  /\ UNCHANGED runs

\* line 397: return sortedTasks
Return ==
  /\ pc = "pass2"
  /\ idx > Len(sortedTasks)
  /\ pc' = "done"
  /\ UNCHANGED <<settings, startDay, daysToSchedule, now, tasks, sortedTasks,
                 availableSlots, idx, pass1Placed, findSlots, findNeeded,
                 findResult>>
  /\ UNCHANGED vaultVars

Next == Rank \/ Pass1Step \/ Pass1Done \/ Pass2Step \/ Return

Spec == Init /\ [][Next]_vars

\* ------------------------------------------ findConsecutiveSlots on its own
\* The finder applied to any chronologically ordered selection of grid slots
\* with any occupancy.
RECURSIVE MarkFrom(_, _, _)
MarkFrom(grid, f, i) ==
  IF i > Len(grid) THEN <<>>
  ELSE (IF f[i] = "drop" THEN <<>>
        ELSE <<[grid[i] EXCEPT !.task = IF f[i] = "busy" THEN 1 ELSE NoTask]>>)
       \o MarkFrom(grid, f, i + 1)

InitFind ==
  /\ settings \in SettingsDomain
  /\ startDay \in StartDays
  /\ daysToSchedule = MaxDays
  /\ now \in NowValues
  /\ tasks = <<>>
  /\ sortedTasks = <<>>
  /\ availableSlots = <<>>
  /\ pc = "find"
  /\ idx = 0
  /\ pass1Placed = {}
  /\ LET grid == generateTimeSlots(startDay, daysToSchedule, settings)
     IN findSlots \in {MarkFrom(grid, f, 1) :
                         f \in [1..Len(grid) -> {"drop", "free", "busy"}]}
  /\ findNeeded \in 1..MaxNeeded
  /\ findResult = <<>>
  /\ VaultIdle

FindApply ==
  /\ pc = "find"
  /\ LET found == findConsecutiveSlots(AllSlots(findSlots), findSlots, findNeeded)
     IN findResult' = [i \in 1..Len(found) |-> findSlots[found[i]]]
  /\ pc' = "found"
  /\ UNCHANGED <<settings, startDay, daysToSchedule, now, tasks, sortedTasks,
                 availableSlots, idx, pass1Placed, findSlots, findNeeded>>
  /\ UNCHANGED vaultVars

NextFind == FindApply

SpecFind == InitFind /\ [][NextFind]_vars

\* --------------------------------------- scheduleTasks over any settings
\* One run of scheduleTasks for at most one task, over working hours that
\* are empty, reversed, a multiple of 30 minutes or not, over any set of
\* working days, any weekday of the start date and any horizon.
GridSettingsDomain ==
  [workingHoursStart : {9 * 60},
   workingHoursEnd : {8 * 60, 9 * 60, 10 * 60 + 45, 17 * 60},
   workingDays : {{}, {1, 2, 3, 4, 5}, {0, 2}}]

\* priority 1, 60 minutes, due 12:00 on the second day or not at all
GridTaskDomain ==
  [priority : {1}, timeEstimate : {60},
   deadline : {Undefined, MinutesPerDay + 12 * 60}, scheduledTime : {Undefined}]

InitGrid ==
  /\ settings \in GridSettingsDomain
  /\ startDay \in 0..6
  /\ daysToSchedule \in 0..MaxHorizon
  /\ now \in NowValues
  /\ tasks \in UNION {[1..n -> GridTaskDomain] : n \in 0..1}
  /\ sortedTasks = <<>>
  /\ availableSlots = <<>>
  /\ pc = "start"
  /\ idx = 0
  /\ pass1Placed = {}
  /\ findSlots = <<>>
  /\ findNeeded = 0
  /\ findResult = <<>>
  /\ VaultIdle

SpecGrid == InitGrid /\ [][Next]_vars

\* ------------------------------------------------- scheduleTasks to its end
\* scheduleTasks is synchronous code: a run that can take a step takes it.
\* Up to two tasks; working hours from 09:00 to 08:00, 09:00 or 10:45.
TermSettingsDomain ==
  [workingHoursStart : {9 * 60},
   workingHoursEnd : {8 * 60, 9 * 60, 10 * 60 + 45},
   workingDays : {{}, {1, 2, 3, 4, 5}, {0, 2}}]

InitTerm ==
  /\ settings \in TermSettingsDomain
  /\ startDay \in {0, 4}
  /\ daysToSchedule \in 0..MaxHorizon
  /\ now \in NowValues
  /\ tasks \in UNION {[1..n -> GridTaskDomain] : n \in 0..2}
  /\ sortedTasks = <<>>
  /\ availableSlots = <<>>
  /\ pc = "start"
  /\ idx = 0
  /\ pass1Placed = {}
  /\ findSlots = <<>>
  /\ findNeeded = 0
  /\ findResult = <<>>
  /\ VaultIdle

SpecTerm == InitTerm /\ [][Next]_vars /\ WF_vars(Next)

\* ===================================================================== claims

\* k free slots at positions j .. j+k-1 of S, each ending where the next starts
FreeRunAt(S, j, k) ==
  /\ j + k - 1 <= Len(S)
  /\ \A i \in j..(j + k - 1) : S[i].task = NoTask
  /\ \A i \in j..(j + k - 2) : S[i].endTime = S[i + 1].startTime

HasFreeRun(S, k) == \E j \in 1..Len(S) : FreeRunAt(S, j, k)

FirstFreeRun(S, k) == CHOOSE j \in 1..Len(S) :
  FreeRunAt(S, j, k) /\ \A h \in 1..(j - 1) : ~FreeRunAt(S, h, k)

FindReturned == pc # "find" /\ findNeeded >= 1

\* C4: findConsecutiveSlots(slots, count) with count >= 1 returns the earliest
\* run of count free slots in which each slot ends where the next starts, and
\* the empty sequence exactly when the slots hold no such run.
C4_FindEarliestRun ==
  FindReturned =>
    IF HasFreeRun(findSlots, findNeeded)
    THEN LET j == FirstFreeRun(findSlots, findNeeded)
         IN /\ findResult = SubSeq(findSlots, j, j + findNeeded - 1)
            /\ Len(findResult) = findNeeded
            /\ \A i \in 1..Len(findResult) : findResult[i].task = NoTask
            /\ \A i \in 1..(Len(findResult) - 1) :
                  findResult[i].endTime = findResult[i + 1].startTime
    ELSE findResult = <<>>

\* a run is found behind an occupied slot and behind a day gap
C4_Witness ==
  /\ pc = "found"
  /\ findNeeded = 2
  /\ Len(findResult) = 2
  /\ \E i \in 1..Len(findSlots) :
        /\ findSlots[i].task # NoTask
        /\ findSlots[i].startTime < findResult[1].startTime
  /\ \E i \in 1..(Len(findSlots) - 1) :
        /\ findSlots[i].task = NoTask /\ findSlots[i + 1].task = NoTask
        /\ findSlots[i].endTime # findSlots[i + 1].startTime
        /\ findSlots[i + 1].startTime <= findResult[1].startTime

\* ------------------------------------------------------------ placement
SlotsOf(t) == {i \in 1..Len(availableSlots) : availableSlots[i].task = t}

\* ceil(timeEstimate / 30): the least k with timeEstimate <= 30 * k
SlotsNeeded(t) ==
  CHOOSE k \in 0..(tasks[t].timeEstimate \div 30 + 1) :
    /\ tasks[t].timeEstimate <= 30 * k
    /\ tasks[t].timeEstimate > 30 * (k - 1)

InPass == pc \in {"pass1", "pass2"}

\* C1: during a run a slot's task is only set on a free slot and a set slot
\* or a set scheduledTime is never changed again.
C1_AssignedNeverReassigned ==
  [][InPass =>
       /\ Len(availableSlots') = Len(availableSlots)
       /\ \A i \in 1..Len(availableSlots) :
             availableSlots[i].task # NoTask =>
               availableSlots'[i].task = availableSlots[i].task
       /\ \A t \in 1..Len(tasks) :
             tasks[t].scheduledTime # Undefined => tasks'[t] = tasks[t]]_vars

\* the second pass has run over a grid in which an earlier task holds slots
C1_Witness ==
  /\ pc = "done"
  /\ \E a, b \in 1..Len(tasks) :
        /\ a # b
        /\ a \in pass1Placed
        /\ b \notin pass1Placed
        /\ SlotsOf(a) # {} /\ SlotsOf(b) # {}
        /\ \E i \in SlotsOf(a), j \in SlotsOf(b) : i < j

\* C2: after scheduleTasks a task with a scheduledTime holds exactly
\* ceil(timeEstimate/30) slots, each ending where the next starts, the first
\* of them starting at scheduledTime; a task without one holds no slot.
C2_PlacementShape ==
  pc = "done" =>
    \A t \in 1..Len(tasks) :
      LET held == SlotsOf(t)
      IN IF tasks[t].scheduledTime # Undefined
         THEN /\ Cardinality(held) = SlotsNeeded(t)
              /\ \E first \in held :
                    /\ \A i \in held : first <= i
                    /\ availableSlots[first].startTime = tasks[t].scheduledTime
              /\ \A i \in held :
                    \/ \A j \in held : j <= i
                    \/ /\ i + 1 \in held
                       /\ availableSlots[i].endTime = availableSlots[i + 1].startTime
         ELSE held = {}

\* a 45-minute task holds two slots, a 90-minute one three, a third none
C2_Witness ==
  /\ pc = "done"
  /\ \E a, b, c \in 1..Len(tasks) :
        /\ tasks[a].timeEstimate = 45 /\ Cardinality(SlotsOf(a)) = 2
        /\ tasks[b].timeEstimate = 90 /\ Cardinality(SlotsOf(b)) = 3
        /\ tasks[c].scheduledTime = Undefined

\* C3: a task placed by scheduleTaskWithDeadline ends at or before its
\* deadline: scheduledTime + timeEstimate <= deadline.
C3_DeadlineCompliance ==
  \A t \in pass1Placed :
    /\ tasks[t].deadline # Undefined
    /\ tasks[t].scheduledTime # Undefined
    /\ tasks[t].scheduledTime + tasks[t].timeEstimate <= tasks[t].deadline

\* a 45-minute task is placed before a deadline that falls inside a slot
C3_Witness ==
  \E t \in pass1Placed :
    /\ tasks[t].timeEstimate = 45
    /\ tasks[t].deadline = 10 * 60 + 10
    /\ tasks[t].scheduledTime = 9 * 60

\* C5: a task that needs more slots than any run of free back-to-back slots
\* offers stays without scheduledTime and without slot, no error is raised,
\* and no such run appears later in the run.
C5_NoRunStaysUnscheduled ==
  [][\A t \in 1..Len(tasks) :
       (/\ InPass
        /\ tasks[t].scheduledTime = Undefined
        /\ ~HasFreeRun(availableSlots, SlotsNeeded(t)))
       => /\ tasks'[t].scheduledTime = Undefined
          /\ \A i \in 1..Len(availableSlots') : availableSlots'[i].task # t
          /\ ~HasFreeRun(availableSlots', SlotsNeeded(t))
          /\ pc' # "threw"]_vars

\* the run is over, two single free slots are left, a 90-minute task is not
\* placed
C5_Witness ==
  /\ pc = "done"
  /\ Cardinality(SlotsOf(NoTask)) = 2
  /\ ~HasFreeRun(availableSlots, 2)
  /\ \E t \in 1..Len(tasks) :
        /\ tasks[t].timeEstimate = 90
        /\ tasks[t].scheduledTime = Undefined
        /\ SlotsOf(t) = {}

RECURSIVE TotalNeeded(_)
TotalNeeded(n) == IF n = 0 THEN 0 ELSE SlotsNeeded(n) + TotalNeeded(n - 1)

\* C6: whenever the grid has at least as many slots as all tasks together
\* need, every task ends with a scheduledTime.
C6_AllScheduledIfEnoughSlots ==
  (pc = "done" /\ Len(availableSlots) >= TotalNeeded(Len(tasks))) =>
    \A t \in 1..Len(tasks) : tasks[t].scheduledTime # Undefined

\* ---------------------------------------------------------------- ranking
Ranked == pc \in {"pass1", "pass2", "done"}

IsPermutation(seq, n) == Len(seq) = n /\ Range(seq) = 1..n

C8_TieFallsThroughToDuration ==
  Ranked =>
    \A i, j \in 1..Len(sortedTasks) :
      LET a == tasks[sortedTasks[i]]
          b == tasks[sortedTasks[j]]
      IN (/\ i < j
          /\ IsUrgent(a, now) = IsUrgent(b, now)
          /\ a.priority = b.priority
          /\ a.deadline = b.deadline)
         => a.timeEstimate <= b.timeEstimate

\* C9: ranking the ranked list again, with the same clock, returns it
\* unchanged.
C9_RankIdempotent ==
  Ranked => sortTasksByPriority(sortedTasks, tasks, now) = sortedTasks

\* three tasks were reordered by the ranking and two of them compare equal
C9_Witness ==
  /\ Ranked
  /\ Len(sortedTasks) = 3
  /\ sortedTasks # <<1, 2, 3>>
  /\ \E i, j \in 1..3 :
        /\ i # j
        /\ tasks[i] # tasks[j]
        /\ CompareTasks(tasks[i], tasks[j], now) = 0

ScenarioC11 ==
  /\ settings.workingHoursStart = 9 * 60
  /\ settings.workingHoursEnd = 17 * 60
  /\ settings.workingDays = {1, 2, 3, 4, 5}
  /\ Len(tasks) = 1
  /\ tasks[1].priority = 1
  /\ tasks[1].timeEstimate = 60
  /\ tasks[1].deadline = MinutesPerDay + 12 * 60

\* the first of the days 0, 1, 2 counted from the start date that is a
\* working day (Monday to Friday)
FirstWorkingDay ==
  CHOOSE d \in 0..2 :
    /\ ((startDay + d) % 7) \in 1..5
    /\ \A e \in 0..(d - 1) : ((startDay + e) % 7) \notin 1..5

\* C11 as stated: 09:00-17:00, Monday to Friday, one task (priority 1, 60
\* minutes, due 12:00 on the day after the start date), a horizon of at least
\* 3 days: the run sets
\* scheduledTime to 09:00 of that next day and the task holds 2 slots.
C11_ScheduledTomorrow ==
  (ScenarioC11 /\ daysToSchedule >= 3 /\ pc = "done") =>
    /\ tasks[1].scheduledTime = MinutesPerDay + 9 * 60
    /\ Cardinality(SlotsOf(1)) = 2

\* C11 amended: in that scenario, with a horizon of at least 3 days, the run
\* sets scheduledTime to 09:00 of the first working day on or after the start
\* date (the start date itself when it is Monday to Friday) and the task
\* holds 2 slots.
C11_ScheduledFirstWorkingDay ==
  (ScenarioC11 /\ daysToSchedule >= 3 /\ pc = "done") =>
    /\ tasks[1].scheduledTime = FirstWorkingDay * MinutesPerDay + 9 * 60
    /\ Cardinality(SlotsOf(1)) = 2

\* the start date is a working day and the task sits at 09:00 of that day
C11_Witness ==
  /\ ScenarioC11
  /\ pc = "done"
  /\ daysToSchedule >= 3
  /\ startDay \in 1..5
  /\ 1 \in pass1Placed
  /\ tasks[1].scheduledTime = 9 * 60
  /\ SlotsOf(1) = {1, 2}

DayOf(instant) == instant \div MinutesPerDay

SlotsOfDay(day) ==
  {i \in 1..Len(availableSlots) : DayOf(availableSlots[i].startTime) = day}

\* whole 30-minute slots between workingHoursStart and workingHoursEnd
WindowSlots ==
  IF settings.workingHoursEnd > settings.workingHoursStart
  THEN (settings.workingHoursEnd - settings.workingHoursStart) \div 30
  ELSE 0

\* C12: the grid holds, for each of the daysToSchedule days from the start
\* date, (workingHoursEnd - workingHoursStart)/30 whole slots when the day's
\* weekday is a working day (none when the window is empty) and no slot when
\* it is not; no slot lies outside these days.
C12_SlotsPerDay ==
  Ranked =>
    /\ \A day \in 0..(daysToSchedule - 1) :
          Cardinality(SlotsOfDay(day)) =
            IF ((startDay + day) % 7) \in settings.workingDays
            THEN WindowSlots ELSE 0
    /\ \A i \in 1..Len(availableSlots) :
          DayOf(availableSlots[i].startTime) \in 0..(daysToSchedule - 1)

\* a 09:00-10:45 window gives three slots on a working day, the last 15
\* minutes are dropped, and a day of the horizon has no slot
C12_Witness ==
  /\ Ranked
  /\ settings.workingHoursEnd = 10 * 60 + 45
  /\ daysToSchedule >= 2
  /\ \E d, e \in 0..(daysToSchedule - 1) :
        /\ Cardinality(SlotsOfDay(d)) = 3
        /\ \A i \in SlotsOfDay(d) : availableSlots[i].endTime <= d * MinutesPerDay + 10 * 60 + 30
        /\ SlotsOfDay(e) = {}

\* C13: every slot of the grid lasts 30 minutes, the slots are in strictly
\* increasing startTime order without overlap, and two consecutive slots of
\* one day are back to back.
C13_GridOrdered ==
  Ranked =>
    /\ \A i \in 1..Len(availableSlots) :
          availableSlots[i].endTime = availableSlots[i].startTime + 30
    /\ \A i \in 1..(Len(availableSlots) - 1) :
          /\ availableSlots[i].startTime < availableSlots[i + 1].startTime
          /\ availableSlots[i].endTime <= availableSlots[i + 1].startTime
          /\ DayOf(availableSlots[i].startTime) = DayOf(availableSlots[i + 1].startTime)
               => availableSlots[i].endTime = availableSlots[i + 1].startTime

\* the grid spans two working days with a non-working day between them
C13_Witness ==
  /\ Ranked
  /\ \E i \in 1..(Len(availableSlots) - 1) :
        DayOf(availableSlots[i + 1].startTime) = DayOf(availableSlots[i].startTime) + 2
  /\ \E i \in 1..(Len(availableSlots) - 1) :
        availableSlots[i].endTime = availableSlots[i + 1].startTime

\* C14: with an empty grid or an empty task list scheduleTasks raises
\* nothing and every task keeps scheduledTime undefined.
C14_EmptyGridNoPlacement ==
  (pc # "start" /\ (availableSlots = <<>> \/ tasks = <<>>)) =>
    /\ pc # "threw"
    /\ \A t \in 1..Len(tasks) : tasks[t].scheduledTime = Undefined

\* the run has returned over an empty grid with a deadline task in the list
C14_Witness ==
  /\ pc = "done"
  /\ availableSlots = <<>>
  /\ daysToSchedule > 0
  /\ settings.workingDays # {}
  /\ Len(tasks) = 1
  /\ tasks[1].deadline # Undefined
  /\ tasks[1].scheduledTime = Undefined


\* ============================================================ Task lines
\* A line of the note is a task line ("- [ ] ..." or "- [x] ...") or other
\* text.  The text after the checkbox is a sequence of tokens: plain words
\* and the tags "#p<n>", "#time/<n><m|h>", "#due/<date>",
\* "#category/<c>", "#recur/<r>", "#<name>" and "#scheduled/<date>T<time>".
\* A date is the number of its day, day 0 being the day of the run; the
\* local time zone is UTC.
Word(w) == [kind |-> "word", num |-> 0, name |-> w]
PriorityTag(p) == [kind |-> "p", num |-> p, name |-> ""]
TimeTag(v, unit) == [kind |-> "time", num |-> v, name |-> unit]
DueTag(day) == [kind |-> "due", num |-> day, name |-> ""]
CategoryTag(c) == [kind |-> "category", num |-> 0, name |-> c]
RecurTag(r) == [kind |-> "recur", num |-> 0, name |-> r]
PlainTag(n) == [kind |-> "tag", num |-> 0, name |-> n]
ScheduledTag(t) == [kind |-> "scheduled", num |-> t, name |-> ""]

TextLine == [task |-> FALSE, checked |-> FALSE, body |-> <<>>]
TaskLine(checked, body) == [task |-> TRUE, checked |-> checked, body |-> body]

\* ---------------------------------------------------------- Task.fromLine
\* description.match(regex): the position of the first token of the kind
FirstOf(body, kind) ==
  IF \E i \in 1..Len(body) : body[i].kind = kind
  THEN CHOOSE i \in 1..Len(body) :
         /\ body[i].kind = kind
         /\ \A j \in 1..(i - 1) : body[j].kind # kind
  ELSE 0

\* description.replace(match[0], '').trim()
Without(body, i) ==
  IF i = 0 THEN body
  ELSE SubSeq(body, 1, i - 1) \o SubSeq(body, i + 1, Len(body))

\* What /#([\w-]+)\b/g captures in a token that is still in the
\* description, "" when the loop pushes nothing: "#p<n>" is in the excluded
\* list; of "#time/1h" the expression matches "#time", which does not start
\* with "#time/", so "time" is pushed, and likewise for the other tags that
\* hold a slash.
TagName(tok) ==
  CASE tok.kind = "word" -> ""
    [] tok.kind = "p" -> ""
    [] tok.kind = "tag" -> tok.name
    [] OTHER -> tok.kind

RECURSIVE TagsFrom(_, _)
TagsFrom(body, i) ==
  IF i > Len(body) THEN <<>>
  ELSE (IF TagName(body[i]) = "" THEN <<>> ELSE <<TagName(body[i])>>)
       \o TagsFrom(body, i + 1)

\* fromLine of a line that matches the task expression
fromLine(line, lineNumber, id, s) ==
  LET pI == FirstOf(line.body, "p")
      d1 == Without(line.body, pI)
      tI == FirstOf(d1, "time")
      d2 == Without(d1, tI)
      dI == FirstOf(d2, "due")
      d3 == Without(d2, dI)
      cI == FirstOf(d3, "category")
      d4 == Without(d3, cI)
      rI == FirstOf(d4, "recur")
      description == Without(d4, rI)
  IN [id |-> id,
      description |-> description,
      priority |-> IF pI = 0 THEN s.defaultPriority ELSE line.body[pI].num,
      timeEstimate |-> IF tI = 0 THEN s.defaultTimeEstimate
                       ELSE IF d1[tI].name = "h" THEN d1[tI].num * 60
                       ELSE d1[tI].num,
      deadline |-> IF dI = 0 THEN Undefined ELSE d2[dI].num * MinutesPerDay,
      completed |-> line.checked,
      lineNumber |-> lineNumber,
      scheduledTime |-> Undefined,
      tags |-> TagsFrom(description, 1),
      category |-> IF cI = 0 THEN "" ELSE d3[cI].name,
      recurrence |-> IF rI = 0 THEN "" ELSE d4[rI].name]

\* ------------------------------------------------------------ Task.toLine
toLine(t) ==
  TaskLine(t.completed,
    t.description
    \o <<PriorityTag(t.priority)>>
    \o <<IF t.timeEstimate >= 60 THEN TimeTag(t.timeEstimate \div 60, "h")
         ELSE TimeTag(t.timeEstimate, "m")>>
    \o (IF t.deadline # Undefined
        THEN <<DueTag(t.deadline \div MinutesPerDay)>> ELSE <<>>)
    \o (IF t.category # "" THEN <<CategoryTag(t.category)>> ELSE <<>>)
    \o (IF t.recurrence # "" THEN <<RecurTag(t.recurrence)>> ELSE <<>>)
    \o [i \in 1..Len(t.tags) |-> PlainTag(t.tags[i])]
    \o (IF t.scheduledTime # Undefined
        THEN <<ScheduledTag(t.scheduledTime)>> ELSE <<>>))

\* ------------------------------------------------------------ collectTasks
\* Every task line becomes a new Task object with an id of its own (ids of
\* different objects are taken to differ); completed tasks are left out.
RECURSIVE CollectFrom(_, _, _, _)
CollectFrom(lines, i, firstId, s) ==
  IF i > Len(lines) THEN <<>>
  ELSE (IF lines[i].task /\ ~lines[i].checked
        THEN <<fromLine(lines[i], i - 1, firstId + i, s)>> ELSE <<>>)
       \o CollectFrom(lines, i + 1, firstId, s)

collectTasks(lines, firstId, s) == CollectFrom(lines, 1, firstId, s)

\* -------------------------------------------------------- updateTaskInFile
\* modifyOk: vault.modify succeeds; when it raises, the catch returns false
\* and the note is as before.
updateTaskInFile(task, lines, modifyOk) ==
  IF task.lineNumber < Len(lines) /\ modifyOk
  THEN [lines |-> [lines EXCEPT ![task.lineNumber + 1] = toLine(task)],
        ok |-> TRUE]
  ELSE [lines |-> lines, ok |-> FALSE]


\* ============================================= the note, commands, queries
MaxLines == 2
MaxCalls == 2

\* defaults of the plugin; 09:00-11:00 on Monday to Friday
VaultSettingsDomain ==
  [workingHoursStart : {9 * 60}, workingHoursEnd : {11 * 60},
   workingDays : {{1, 2, 3, 4, 5}},
   defaultPriority : {3}, defaultTimeEstimate : {30}]

\* "# Notes"; "- [ ] Pay"; "- [ ] Write #p1 #time/90m #due/<tomorrow>";
\* "- [x] Done"
LineDomain ==
  {TextLine,
   TaskLine(FALSE, <<Word("Pay")>>),
   TaskLine(FALSE, <<Word("Write"), PriorityTag(1), TimeTag(90, "m"),
                     DueTag(1)>>),
   TaskLine(TRUE, <<Word("Done")>>)}

NoteDomain == UNION {[1..n -> LineDomain] : n \in 0..MaxLines}

\* a finished call: the method, the displayed task and the argument it was
\* called for, what it returned, whether vault.modify worked, and the note
\* before the call
Call(o, t, a, v, ok, before) ==
  [op |-> o, task |-> t, arg |-> a, value |-> v, modifyOk |-> ok,
   linesBefore |-> before]

InitVault ==
  /\ settings \in VaultSettingsDomain
  /\ startDay \in StartDays
  /\ daysToSchedule = DefaultDays
  /\ now \in NowValues
  /\ tasks = <<>>
  /\ sortedTasks = <<>>
  /\ availableSlots = <<>>
  /\ pc = "idle"
  /\ idx = 0
  /\ pass1Placed = {}
  /\ findSlots = <<>>
  /\ findNeeded = 0
  /\ findResult = <<>>
  /\ fileLines \in NoteDomain
  /\ op = "none"
  /\ nextId = 0
  /\ persistIdx = 0
  /\ updatedCount = 0
  /\ persistLog = <<>>
  /\ history = <<>>
  /\ scheduledTasks = <<>>
  /\ timeSlots = <<>>
  /\ runs = <<>>

\* no method is running and another call is within the bound
Idle == pc = "idle" /\ Len(history) < MaxCalls

\* collectTasks, then the call scheduleTasks(tasks, new Date()) with the
\* default horizon
BeginRun(o, lines, firstId) ==
  /\ op' = o
  /\ tasks' = collectTasks(lines, firstId, settings)
  /\ nextId' = firstId + Len(lines)
  /\ daysToSchedule' = DefaultDays
  /\ pc' = "start"
  /\ sortedTasks' = <<>>
  /\ availableSlots' = <<>>
  /\ idx' = 0
  /\ pass1Placed' = {}
  /\ findSlots' = <<>>
  /\ findNeeded' = 0
  /\ findResult' = <<>>
  /\ persistIdx' = 1
  /\ updatedCount' = 0
  /\ persistLog' = <<>>

\* --------------------------------------------------------- scheduleAllTasks
\* lines 506-509
ScheduleAllBegin ==
  /\ Idle
  /\ BeginRun("scheduleAllTasks", fileLines, nextId)
  /\ UNCHANGED <<settings, startDay, now, fileLines, history, scheduledTasks,
                 timeSlots>>
  /\ UNCHANGED runs

\* one iteration of the update loop that counts every update, failed or not
persistTaskCountAll(task, lines, count, modifyOk) ==
  LET r == updateTaskInFile(task, lines, modifyOk)
  IN [lines |-> r.lines, ok |-> r.ok, count |-> count + 1]

\* lines 514-517: one iteration of the update loop for a scheduled task
persistTask(task, lines, count, modifyOk) ==
  LET r == updateTaskInFile(task, lines, modifyOk)
  IN [lines |-> r.lines, ok |-> r.ok,
      count |-> IF r.ok THEN count + 1 ELSE count]

\* lines 513-518
PersistStep ==
  /\ pc = "done"
  /\ op = "scheduleAllTasks"
  /\ persistIdx <= Len(sortedTasks)
  /\ LET t == sortedTasks[persistIdx]
     IN IF tasks[t].scheduledTime # Undefined
        THEN \E modifyOk \in BOOLEAN :
               LET r == persistTask(tasks[t], fileLines, updatedCount, modifyOk)
               IN /\ fileLines' = r.lines
                  /\ updatedCount' = r.count
                  /\ persistLog' = Append(persistLog,
                                          [task |-> t, ok |-> r.ok])
        ELSE UNCHANGED <<fileLines, updatedCount, persistLog>>
  /\ persistIdx' = persistIdx + 1
  /\ UNCHANGED <<settings, startDay, daysToSchedule, now, tasks, sortedTasks,
                 availableSlots, pc, idx, pass1Placed, findSlots, findNeeded,
                 findResult, op, nextId, history, scheduledTasks, timeSlots>>
  /\ UNCHANGED runs

\* line 520: return updatedCount
ScheduleAllReturn ==
  /\ pc = "done"
  /\ op = "scheduleAllTasks"
  /\ persistIdx > Len(sortedTasks)
  /\ history' = Append(history, Call("scheduleAllTasks", <<>>, 0, updatedCount,
                                     TRUE, fileLines))
  /\ pc' = "idle"
  /\ op' = "none"
  /\ UNCHANGED <<settings, startDay, daysToSchedule, now, tasks, sortedTasks,
                 availableSlots, idx, pass1Placed, findSlots, findNeeded,
                 findResult, fileLines, nextId, persistIdx, updatedCount,
                 persistLog, scheduledTasks, timeSlots>>
  /\ UNCHANGED runs

\* ----------------------------------------------------- getScheduleStatistics
scheduleStatistics(allTasks, n) ==
  LET IsScheduled(t) == t.scheduledTime # Undefined
      IsUpcoming(t) == /\ t.deadline # Undefined
                       /\ t.deadline > n
                       /\ t.deadline <= n + 3 * MinutesPerDay
      IsOverdue(t) == t.deadline # Undefined /\ t.deadline < n /\ ~t.completed
      IsCompleted(t) == t.completed
  IN [totalTasks |-> Len(allTasks),
      scheduledTasks |-> Len(SelectSeq(allTasks, IsScheduled)),
      completedTasks |-> Len(SelectSeq(allTasks, IsCompleted)),
      upcomingDeadlines |-> Len(SelectSeq(allTasks, IsUpcoming)),
      overdueTasks |-> Len(SelectSeq(allTasks, IsOverdue))]

GetScheduleStatistics ==
  /\ Idle
  /\ LET allTasks == collectTasks(fileLines, nextId, settings)
     IN history' = Append(history,
                          Call("getScheduleStatistics", <<>>, 0,
                               scheduleStatistics(allTasks, now), TRUE,
                               fileLines))
  /\ nextId' = nextId + Len(fileLines)
  /\ UNCHANGED <<settings, startDay, daysToSchedule, now, tasks, sortedTasks,
                 availableSlots, pc, idx, pass1Placed, findSlots, findNeeded,
                 findResult, fileLines, op, persistIdx, updatedCount,
                 persistLog, scheduledTasks, timeSlots>>
  /\ UNCHANGED runs

\* ------------------------------------------------------------ getTasksForDay
\* year, month and day of two instants agree
SameDay(a, b) == a \div MinutesPerDay = b \div MinutesPerDay

getTasksForDay(allTasks, date) ==
  LET OnDay(t) == t.scheduledTime # Undefined /\ SameDay(t.scheduledTime, date)
  IN SelectSeq(allTasks, OnDay)

\* the days asked for: today and tomorrow, at noon
QueryDates == {12 * 60, MinutesPerDay + 12 * 60}

GetTasksForDay(date) ==
  /\ Idle
  /\ LET allTasks == collectTasks(fileLines, nextId, settings)
     IN history' = Append(history,
                          Call("getTasksForDay", <<>>, date,
                               getTasksForDay(allTasks, date), TRUE,
                               fileLines))
  /\ nextId' = nextId + Len(fileLines)
  /\ UNCHANGED <<settings, startDay, daysToSchedule, now, tasks, sortedTasks,
                 availableSlots, pc, idx, pass1Placed, findSlots, findNeeded,
                 findResult, fileLines, op, persistIdx, updatedCount,
                 persistLog, scheduledTasks, timeSlots>>
  /\ UNCHANGED runs

\* ------------------------------------------- completeTask, rescheduleTask
\* tasks.find(t => t.id === taskId): the first match, 0 for undefined
FindById(ts, taskId) ==
  IF \E k \in 1..Len(ts) : ts[k].id = taskId
  THEN CHOOSE k \in 1..Len(ts) :
         ts[k].id = taskId /\ \A j \in 1..(k - 1) : ts[j].id # taskId
  ELSE 0

completeTask(taskId, lines, firstId, s, modifyOk) ==
  LET ts == collectTasks(lines, firstId, s)
      k == FindById(ts, taskId)
  IN IF k = 0 THEN [lines |-> lines, ok |-> FALSE]
     ELSE updateTaskInFile([ts[k] EXCEPT !.completed = TRUE], lines, modifyOk)

rescheduleTask(taskId, newTime, lines, firstId, s, modifyOk) ==
  LET ts == collectTasks(lines, firstId, s)
      k == FindById(ts, taskId)
  IN IF k = 0 THEN [lines |-> lines, ok |-> FALSE]
     ELSE updateTaskInFile([ts[k] EXCEPT !.scheduledTime = newTime], lines,
                           modifyOk)

\* ------------------------------------------------------------ SchedulerView
\* the week the calendar shows
ViewDays == 7

\* refresh, lines 31-32 (onOpen, or any later refresh)
RefreshBegin ==
  /\ Idle
  /\ BeginRun("refresh", fileLines, nextId)
  /\ UNCHANGED <<settings, startDay, now, fileLines, history, scheduledTasks,
                 timeSlots>>
  /\ UNCHANGED runs

\* refresh, lines 32-36: keep what scheduleTasks returned, build the grid
\* of the calendar
RefreshFinish ==
  /\ pc = "done"
  /\ op = "refresh"
  /\ scheduledTasks' = [i \in 1..Len(sortedTasks) |-> tasks[sortedTasks[i]]]
  /\ timeSlots' = generateTimeSlots(startDay, ViewDays, settings)
  /\ history' = Append(history, Call("refresh", <<>>, 0, 0, TRUE, fileLines))
  /\ pc' = "idle"
  /\ op' = "none"
  /\ UNCHANGED <<settings, startDay, daysToSchedule, now, tasks, sortedTasks,
                 availableSlots, idx, pass1Placed, findSlots, findNeeded,
                 findResult, fileLines, nextId, persistIdx, updatedCount,
                 persistLog>>
  /\ UNCHANGED runs

\* the change handler of the checkbox of the i-th listed task, ticked by
\* the user (the listed tasks have no recurrence)
ClickCheckbox(i) ==
  /\ Idle
  /\ i \in 1..Len(scheduledTasks)
  /\ ~scheduledTasks[i].completed
  /\ scheduledTasks' = [scheduledTasks EXCEPT ![i].completed = TRUE]
  /\ \E modifyOk \in BOOLEAN :
       LET r == completeTask(scheduledTasks[i].id, fileLines, nextId, settings,
                             modifyOk)
       IN /\ fileLines' = r.lines
          /\ history' = Append(history,
                               Call("completeTask", scheduledTasks[i], 0, r.ok,
                                    modifyOk, fileLines))
  /\ nextId' = nextId + Len(fileLines)
  /\ UNCHANGED <<settings, startDay, daysToSchedule, now, tasks, sortedTasks,
                 availableSlots, pc, idx, pass1Placed, findSlots, findNeeded,
                 findResult, op, persistIdx, updatedCount, persistLog,
                 timeSlots>>
  /\ UNCHANGED runs

\* tomorrow.setHours(9, 0, 0, 0)
TomorrowNine == MinutesPerDay + 9 * 60

\* the click handler of the reschedule button of the i-th listed task:
\* rescheduleTask, then the first half of refresh
ClickReschedule(i) ==
  /\ Idle
  /\ i \in 1..Len(scheduledTasks)
  /\ \E modifyOk \in BOOLEAN :
       LET r == rescheduleTask(scheduledTasks[i].id, TomorrowNine, fileLines,
                               nextId, settings, modifyOk)
       IN /\ fileLines' = r.lines
          /\ history' = Append(history,
                               Call("rescheduleTask", scheduledTasks[i],
                                    TomorrowNine, r.ok, modifyOk, fileLines))
          /\ BeginRun("refresh", r.lines, nextId + Len(fileLines))
  /\ UNCHANGED <<settings, startDay, now, scheduledTasks, timeSlots>>
  /\ UNCHANGED runs

NextVault ==
  \/ ScheduleAllBegin
  \/ Rank
  \/ Pass1Step
  \/ Pass1Done
  \/ Pass2Step
  \/ Return
  \/ PersistStep
  \/ ScheduleAllReturn
  \/ GetScheduleStatistics
  \/ \E date \in QueryDates : GetTasksForDay(date)
  \/ RefreshBegin
  \/ RefreshFinish
  \/ \E i \in 1..MaxLines : ClickCheckbox(i)
  \/ \E i \in 1..MaxLines : ClickReschedule(i)

SpecVault == InitVault /\ [][NextVault]_vars


\* ------------------------------------------------ claims on the vault methods
LastCall == history[Len(history)]

\* the method has just returned and nothing has been called since
JustReturned(o) == pc = "idle" /\ history # <<>> /\ LastCall.op = o

\* the tasks the update loop has gone past that carry a scheduledTime
PersistTried ==
  {sortedTasks[j] : j \in {k \in 1..Len(sortedTasks) :
      k < persistIdx /\ tasks[sortedTasks[k]].scheduledTime # Undefined}}

SucceededUpdates == {i \in 1..Len(persistLog) : persistLog[i].ok}

HasScheduledMarker(line, t) ==
  \E k \in 1..Len(line.body) : line.body[k] = ScheduledTag(t)

\* C15: in scheduleAllTasks a failed updateTaskInFile leaves the task's
\* in-memory scheduledTime and its slots in place, the update loop goes on
\* to every remaining scheduled task, every update that succeeded has
\* written the task's line, and the number returned is the count of the
\* updates that succeeded.
C15_FailedUpdateKeepsPlacement ==
  /\ (pc = "done" /\ op = "scheduleAllTasks") =>
       /\ \A i \in 1..Len(persistLog) :
            /\ tasks[persistLog[i].task].scheduledTime # Undefined
            /\ SlotsOf(persistLog[i].task) # {}
            /\ persistLog[i].ok =>
                 HasScheduledMarker(
                   fileLines[tasks[persistLog[i].task].lineNumber + 1],
                   tasks[persistLog[i].task].scheduledTime)
       /\ {persistLog[i].task : i \in 1..Len(persistLog)} = PersistTried
       /\ updatedCount = Cardinality(SucceededUpdates)
  /\ JustReturned("scheduleAllTasks") =>
       /\ LastCall.value = Cardinality(SucceededUpdates)
       /\ {persistLog[i].task : i \in 1..Len(persistLog)} =
            {t \in 1..Len(tasks) : tasks[t].scheduledTime # Undefined}

\* a run has returned in which an update failed and a later one succeeded
C15_Witness ==
  /\ JustReturned("scheduleAllTasks")
  /\ \E i, j \in 1..Len(persistLog) :
       i < j /\ ~persistLog[i].ok /\ persistLog[j].ok
  /\ LastCall.value = 1


\* C16: after scheduleAllTasks has placed and persisted k tasks, a
\* getScheduleStatistics that follows it reports scheduledTasks = k.
C16_StatisticsCountPersisted ==
  \A i \in 1..(Len(history) - 1) :
    (history[i].op = "scheduleAllTasks"
       /\ history[i + 1].op = "getScheduleStatistics")
    => history[i + 1].value.scheduledTasks = history[i].value

\* C17: after scheduleAllTasks has placed and persisted a task at a
\* scheduledTime on day D, getTasksForDay(D) returns that task; and
\* getTasksForDay(date) returns no task whose scheduledTime is undefined or
\* on another day than date.
C17_TasksForDayReturnsPersisted ==
  JustReturned("getTasksForDay") =>
    /\ \A k \in 1..Len(LastCall.value) :
         /\ LastCall.value[k].scheduledTime # Undefined
         /\ SameDay(LastCall.value[k].scheduledTime, LastCall.arg)
    /\ (Len(history) >= 2 /\ history[Len(history) - 1].op = "scheduleAllTasks")
       => \A i \in SucceededUpdates :
            SameDay(tasks[persistLog[i].task].scheduledTime, LastCall.arg)
            => \E k \in 1..Len(LastCall.value) :
                 LastCall.value[k].lineNumber =
                   tasks[persistLog[i].task].lineNumber

\* the line the displayed task of the last call was read from is, in the
\* note before the call, the line of a task that is not completed
ShownTaskExists ==
  LET n == LastCall.task.lineNumber + 1
  IN /\ n <= Len(LastCall.linesBefore)
     /\ LastCall.linesBefore[n].task
     /\ ~LastCall.linesBefore[n].checked

\* C18: completeTask, called by the checkbox handler with the id of a
\* displayed task, marks that task completed in the note and returns true;
\* it returns false only when the task is not in the note or the update of
\* the note fails.
C18_CompleteTaskMarksFile ==
  JustReturned("completeTask") =>
    /\ (ShownTaskExists /\ LastCall.modifyOk) => LastCall.value = TRUE
    /\ LastCall.value = TRUE =>
         fileLines[LastCall.task.lineNumber + 1].checked

\* C19: rescheduleTask, called by the reschedule button with the id of a
\* displayed task, writes the new scheduledTime to the task's line of the
\* note and returns true.
C19_RescheduleTaskWritesFile ==
  (history # <<>> /\ LastCall.op = "rescheduleTask"
     /\ ShownTaskExists /\ LastCall.modifyOk)
  => /\ LastCall.value = TRUE
     /\ HasScheduledMarker(fileLines[LastCall.task.lineNumber + 1],
                           LastCall.arg)

\* C20: after refresh every slot the calendar shows carries the task the
\* scheduling run of the refresh assigned to the slot of that time, and
\* carries no task when the run assigned none.
C20_CalendarShowsAssignments ==
  JustReturned("refresh") =>
    \A i \in 1..Len(timeSlots) : \A j \in 1..Len(availableSlots) :
      timeSlots[i].startTime = availableSlots[j].startTime
      => timeSlots[i].task = availableSlots[j].task


ChangedLines ==
  {i \in 1..Len(fileLines) : i > Len(fileLines') \/ fileLines'[i] # fileLines[i]}

\* C21: in scheduleAllTasks the note is not written before the placement of
\* all tasks has finished (so a run cut off during placement leaves the note
\* as it was), and afterwards each step of the run writes at most one line.
C21_NoWriteBeforePlacementDone ==
  [][(op = "scheduleAllTasks" \/ op' = "scheduleAllTasks") =>
       /\ pc # "done" => fileLines' = fileLines
       /\ Len(fileLines') = Len(fileLines)
       /\ Cardinality(ChangedLines) <= 1]_vars

\* the placement of two tasks has finished, the line of the first has been
\* written, the line of the second is still as it was read
C21_Witness ==
  /\ op = "scheduleAllTasks"
  /\ pc = "done"
  /\ Len(persistLog) = 1
  /\ persistLog[1].ok
  /\ persistIdx <= Len(sortedTasks)
  /\ tasks[sortedTasks[persistIdx]].scheduledTime # Undefined
  /\ ~HasScheduledMarker(
        fileLines[tasks[sortedTasks[persistIdx]].lineNumber + 1],
        tasks[sortedTasks[persistIdx]].scheduledTime)


\* the end of the block of slots task t holds
BlockEnd(t) ==
  availableSlots[CHOOSE i \in SlotsOf(t) : \A j \in SlotsOf(t) : j <= i].endTime

\* tasks with a deadline that the first pass has tried and not placed
MissedInPass1 ==
  {t \in 1..Len(tasks) :
     /\ tasks[t].deadline # Undefined
     /\ t \notin pass1Placed
     /\ pc \in {"pass2", "done"}}

Pass1Grid(deadline) ==
  LET on == SelectSeq(availableSlots, LAMBDA s : s.endTime <= deadline)
  IN [i \in 1..Len(on) |->
        IF on[i].task \in pass1Placed THEN on[i]
        ELSE [on[i] EXCEPT !.task = NoTask]]

PositionOf(t) == CHOOSE k \in 1..Len(sortedTasks) : sortedTasks[k] = t

\* C23: no task without a deadline holds a slot while the first pass runs,
\* whatever its rank; and once such a task holds a slot every task with a
\* deadline has had its attempt in the first pass: it was placed there, or
\* the first pass left no free run for it before its deadline.
C23_DeadlinePassFirst ==
  /\ pc = "pass1" =>
       \A t \in 1..Len(tasks) :
         tasks[t].deadline = Undefined =>
           tasks[t].scheduledTime = Undefined /\ SlotsOf(t) = {}
  /\ (\E u \in 1..Len(tasks) :
        tasks[u].deadline = Undefined /\ tasks[u].scheduledTime # Undefined)
     => /\ pc \in {"pass2", "done"}
        /\ \A d \in 1..Len(tasks) :
             tasks[d].deadline # Undefined =>
               \/ d \in pass1Placed
               \/ ~HasFreeRun(Pass1Grid(tasks[d].deadline), SlotsNeeded(d))

\* a task without a deadline ranks before a task with one, and holds a later
\* block than that task got in the first pass
C23_Witness ==
  /\ pc = "done"
  /\ \E u, d \in 1..Len(tasks) :
       /\ tasks[u].deadline = Undefined
       /\ tasks[d].deadline # Undefined
       /\ PositionOf(u) < PositionOf(d)
       /\ d \in pass1Placed
       /\ tasks[u].scheduledTime # Undefined
       /\ tasks[d].scheduledTime < tasks[u].scheduledTime


\* C24: scheduleTasks comes to its end for every task list, horizon and
\* working-hours setting, a window that is empty, reversed or no multiple of
\* 30 minutes included.
C24_RunTerminates == <>(pc = "done")

\* a run over reversed working hours (09:00 to 08:00) has ended
C24_Witness ==
  /\ pc = "done"
  /\ settings.workingHoursEnd < settings.workingHoursStart
  /\ Len(tasks) = 2
  /\ idx = 3


\* C25: every scheduledTime a run assigns is at or after the instant the run
\* was started at (scheduleAllTasks and refresh start it at the current
\* time): no task is put into a slot of the day that has already passed.
C25_NotBeforeStartInstant ==
  \A t \in 1..Len(tasks) :
    tasks[t].scheduledTime # Undefined => tasks[t].scheduledTime >= now


\* ------------------------------------------- scheduleTasks and "#time/0m"
\* "- [ ] Nap #time/0m"; "- [ ] Call #time/0m #due/<tomorrow>"; "- [ ] Pay"
ZeroLineDomain ==
  {TaskLine(FALSE, <<Word("Nap"), TimeTag(0, "m")>>),
   TaskLine(FALSE, <<Word("Call"), TimeTag(0, "m"), DueTag(1)>>),
   TaskLine(FALSE, <<Word("Pay")>>)}

\* scheduleTasks over the tasks collected from a note of up to two lines
InitZero ==
  /\ settings \in VaultSettingsDomain
  /\ startDay \in StartDays
  /\ daysToSchedule \in {1, MaxDays, DefaultDays}
  /\ now \in NowValues
  /\ \E note \in UNION {[1..n -> ZeroLineDomain] : n \in 0..MaxLines} :
       tasks = collectTasks(note, 0, settings)
  /\ sortedTasks = <<>>
  /\ availableSlots = <<>>
  /\ pc = "start"
  /\ idx = 0
  /\ pass1Placed = {}
  /\ findSlots = <<>>
  /\ findNeeded = 0
  /\ findResult = <<>>
  /\ VaultIdle

SpecZero == InitZero /\ [][Next]_vars

\* C26: scheduleTasks raises nothing for a task of 0 minutes, and the run
\* goes through every task of the list.
C26_ZeroMinutesNoRaise ==
  /\ pc # "threw"
  /\ pc = "done" => idx = Len(tasks) + 1


\* --------------------------------------------- a task written and read back
MaxMinutes == 125

\* a task of the note's first line, as a run holds it before it updates the
\* note: any duration from 1 minute on, with or without deadline and
\* scheduledTime
WrittenTaskDomain ==
  [id : {1}, description : {<<Word("Pay")>>}, priority : {1, 3},
   timeEstimate : 1..MaxMinutes, deadline : {Undefined, MinutesPerDay},
   completed : {FALSE}, lineNumber : {0},
   scheduledTime : {Undefined, 9 * 60}, tags : {<<>>}, category : {""},
   recurrence : {""}]

InitLine ==
  /\ settings \in VaultSettingsDomain
  /\ startDay \in StartDays
  /\ daysToSchedule = DefaultDays
  /\ now \in NowValues
  /\ tasks \in [1..1 -> WrittenTaskDomain]
  /\ sortedTasks = <<>>
  /\ availableSlots = <<>>
  /\ pc = "task"
  /\ idx = 0
  /\ pass1Placed = {}
  /\ findSlots = <<>>
  /\ findNeeded = 0
  /\ findResult = <<>>
  /\ fileLines = <<TaskLine(FALSE, <<Word("Pay")>>)>>
  /\ op = "none"
  /\ nextId = 1
  /\ persistIdx = 0
  /\ updatedCount = 0
  /\ persistLog = <<>>
  /\ history = <<>>
  /\ scheduledTasks = <<>>
  /\ timeSlots = <<>>
  /\ runs = <<>>

\* updateTaskInFile(task)
WriteTask ==
  /\ pc = "task"
  /\ fileLines' = updateTaskInFile(tasks[1], fileLines, TRUE).lines
  /\ pc' = "written"
  /\ UNCHANGED <<settings, startDay, daysToSchedule, now, tasks, sortedTasks,
                 availableSlots, idx, pass1Placed, findSlots, findNeeded,
                 findResult, op, nextId, persistIdx, updatedCount, persistLog,
                 history, scheduledTasks, timeSlots>>
  /\ UNCHANGED runs

\* the collectTasks of the next run: the task read back is put behind the
\* task that was written
ReadTask ==
  /\ pc = "written"
  /\ tasks' = tasks \o collectTasks(fileLines, nextId, settings)
  /\ nextId' = nextId + Len(fileLines)
  /\ pc' = "read"
  /\ UNCHANGED <<settings, startDay, daysToSchedule, now, sortedTasks,
                 availableSlots, idx, pass1Placed, findSlots, findNeeded,
                 findResult, fileLines, op, persistIdx, updatedCount,
                 persistLog, history, scheduledTasks, timeSlots>>
  /\ UNCHANGED runs

NextLine == WriteTask \/ ReadTask

SpecLine == InitLine /\ [][NextLine]_vars

\* C27: a task written with toLine and read back with fromLine has the
\* timeEstimate it was written with, for every positive number of minutes.
C27_TimeEstimateRoundTrip ==
  pc = "read" => tasks[2].timeEstimate = tasks[1].timeEstimate


\* what fromLine reads as the description of line n of a note
DescriptionOf(lines, n) == fromLine(lines[n], n - 1, 0, settings).description

\* C28: however often scheduleAllTasks runs over the note, a task line holds
\* each tag once and at most one "#scheduled/" marker, and after a second
\* run in a row the description read from the line is the one read after
\* the first.
C28_LinesDoNotGrow ==
  /\ \A n \in 1..Len(fileLines) :
       LET body == fileLines[n].body
       IN /\ Cardinality({k \in 1..Len(body) : body[k].kind = "scheduled"}) <= 1
          /\ \A k, m \in 1..Len(body) :
               (k < m /\ body[k].kind # "word") => body[k] # body[m]
  /\ (JustReturned("scheduleAllTasks") /\ Len(history) >= 2
        /\ history[Len(history) - 1].op = "scheduleAllTasks")
     => \A n \in 1..Len(fileLines) :
          (fileLines[n].task /\ ~fileLines[n].checked) =>
            DescriptionOf(fileLines, n) =
              DescriptionOf(history[Len(history) - 1].linesBefore, n)


\* ------------------------------------------- scheduleTasks as one function
\* lines 384-388, from the i-th ranked task on
RECURSIVE Pass1From(_, _, _, _)
Pass1From(sorted, i, grid, ts) ==
  IF i > Len(sorted) THEN [grid |-> grid, tasks |-> ts, threw |-> FALSE]
  ELSE IF ts[sorted[i]].deadline = Undefined
       THEN Pass1From(sorted, i + 1, grid, ts)
       ELSE LET r == scheduleTaskWithDeadline(sorted[i], grid, ts)
            IN IF r.threw
               THEN [grid |-> r.grid, tasks |-> r.tasks, threw |-> TRUE]
               ELSE Pass1From(sorted, i + 1, r.grid, r.tasks)

\* lines 391-395, from the i-th ranked task on
RECURSIVE Pass2From(_, _, _, _)
Pass2From(sorted, i, grid, ts) ==
  IF i > Len(sorted) THEN [grid |-> grid, tasks |-> ts, threw |-> FALSE]
  ELSE IF ts[sorted[i]].scheduledTime # Undefined
       THEN Pass2From(sorted, i + 1, grid, ts)
       ELSE LET r == scheduleTaskAnywhere(sorted[i], grid, ts)
            IN IF r.threw
               THEN [grid |-> r.grid, tasks |-> r.tasks, threw |-> TRUE]
               ELSE Pass2From(sorted, i + 1, r.grid, r.tasks)

\* returned: the Task objects in ranked order, as scheduleTasks returns them
scheduleTasks(ts, dow, days, s, n) ==
  LET sorted == sortTasksByPriority([i \in 1..Len(ts) |-> i], ts, n)
      p1 == Pass1From(sorted, 1, generateTimeSlots(dow, days, s), ts)
      p2 == IF p1.threw THEN p1 ELSE Pass2From(sorted, 1, p1.grid, p1.tasks)
  IN [returned |-> [i \in 1..Len(sorted) |-> p2.tasks[sorted[i]]],
      grid |-> p2.grid, threw |-> p2.threw]

\* ------------------------------------- scheduleAllTasks called twice at once
\* The command is triggered again while a run waits for the vault.  A run
\* gives way at its awaits: after collectTasks has read the note, and in
\* updateTaskInFile between the read of the note and vault.modify.
Runs == {1, 2}

InitRace ==
  /\ settings \in VaultSettingsDomain
  /\ startDay \in StartDays
  /\ daysToSchedule = DefaultDays
  /\ now \in NowValues
  /\ tasks = <<>>
  /\ sortedTasks = <<>>
  /\ availableSlots = <<>>
  /\ pc = "idle"
  /\ idx = 0
  /\ pass1Placed = {}
  /\ findSlots = <<>>
  /\ findNeeded = 0
  /\ findResult = <<>>
  /\ fileLines \in NoteDomain
  /\ op = "none"
  /\ nextId = 0
  /\ persistIdx = 0
  /\ updatedCount = 0
  /\ persistLog = <<>>
  /\ history = <<>>
  /\ scheduledTasks = <<>>
  /\ timeSlots = <<>>
  /\ runs = [r \in Runs |->
               [pc |-> "idle", scheduledTasks |-> <<>>, i |-> 0,
                content |-> <<>>, updatedCount |-> 0, value |-> 0]]

RaceUnchanged ==
  UNCHANGED <<settings, startDay, daysToSchedule, now, tasks, sortedTasks,
              availableSlots, pc, idx, pass1Placed, findSlots, findNeeded,
              findResult, op, persistIdx, updatedCount, history,
              scheduledTasks, timeSlots>>

\* lines 506-509 (and the catch of line 521): the note is read, the tasks
\* are placed
RaceBegin(r) ==
  /\ runs[r].pc = "idle"
  /\ LET res == scheduleTasks(collectTasks(fileLines, nextId, settings),
                              startDay, DefaultDays, settings, now)
     IN runs' = [runs EXCEPT ![r] =
                   IF res.threw THEN [@ EXCEPT !.pc = "returned", !.value = 0]
                   ELSE [@ EXCEPT !.pc = "loop",
                                  !.scheduledTasks = res.returned, !.i = 1]]
  /\ nextId' = nextId + Len(fileLines)
  /\ UNCHANGED <<fileLines, persistLog>>
  /\ RaceUnchanged

\* lines 513-514 and 419: the next task of the loop; for a scheduled task
\* updateTaskInFile reads the note
RaceRead(r) ==
  /\ runs[r].pc = "loop"
  /\ runs[r].i <= Len(runs[r].scheduledTasks)
  /\ runs' = [runs EXCEPT ![r] =
                IF runs[r].scheduledTasks[runs[r].i].scheduledTime # Undefined
                THEN [@ EXCEPT !.pc = "read", !.content = fileLines]
                ELSE [@ EXCEPT !.i = @ + 1]]
  /\ UNCHANGED <<fileLines, nextId, persistLog>>
  /\ RaceUnchanged

\* lines 420-427 and 516: the line is replaced in what was read, vault.modify
\* writes the result, the update is counted
RaceModify(r) ==
  /\ runs[r].pc = "read"
  /\ \E modifyOk \in BOOLEAN :
       LET task == runs[r].scheduledTasks[runs[r].i]
           res == persistTask(task, runs[r].content, runs[r].updatedCount,
                              modifyOk)
       IN /\ fileLines' = IF res.ok THEN res.lines ELSE fileLines
          /\ runs' = [runs EXCEPT ![r] =
                        [@ EXCEPT !.pc = "loop", !.i = @ + 1,
                                  !.updatedCount = res.count]]
          /\ persistLog' = Append(persistLog,
                                  [run |-> r, lineNumber |-> task.lineNumber,
                                   line |-> toLine(task), ok |-> res.ok])
  /\ UNCHANGED nextId
  /\ RaceUnchanged

\* line 520
RaceReturn(r) ==
  /\ runs[r].pc = "loop"
  /\ runs[r].i > Len(runs[r].scheduledTasks)
  /\ runs' = [runs EXCEPT ![r] =
                [@ EXCEPT !.pc = "returned", !.value = runs[r].updatedCount]]
  /\ UNCHANGED <<fileLines, nextId, persistLog>>
  /\ RaceUnchanged

NextRace ==
  \E r \in Runs : RaceBegin(r) \/ RaceRead(r) \/ RaceModify(r) \/ RaceReturn(r)

SpecRace == InitRace /\ [][NextRace]_vars

\* the updates of line n that a run counted, in the order they were written
CountedUpdates(n) ==
  SelectSeq(persistLog, LAMBDA e : e.ok /\ e.lineNumber = n)

\* C29: when two scheduleAllTasks runs over the same note have both
\* returned, every line that a run counted as updated holds what the last
\* counted update of that line wrote: no update of one run is lost to a
\* write of the other.
C29_NoLostUpdate ==
  (\A r \in Runs : runs[r].pc = "returned") =>
    \A n \in 0..(Len(fileLines) - 1) :
      CountedUpdates(n) # <<>> =>
        fileLines[n + 1] = CountedUpdates(n)[Len(CountedUpdates(n))].line

\* --------------------------------------- the note is edited during a run
\* The note belongs to the vault: between the awaits of a run its user can
\* put a line into it or take a line out of it.
MaxEdits == 1

\* a line "# Notes" is put in front of line k of the note
InsertLine(k) ==
  /\ Len(history) < MaxEdits
  /\ k \in 1..(Len(fileLines) + 1)
  /\ fileLines' = SubSeq(fileLines, 1, k - 1) \o <<TextLine>>
                  \o SubSeq(fileLines, k, Len(fileLines))
  /\ history' = Append(history,
                       Call("insertLine", NoTask, k, 0, TRUE, fileLines))
  /\ UNCHANGED <<settings, startDay, daysToSchedule, now, tasks, sortedTasks,
                 availableSlots, pc, idx, pass1Placed, findSlots, findNeeded,
                 findResult, op, nextId, persistIdx, updatedCount, persistLog,
                 scheduledTasks, timeSlots, runs>>

\* line k of the note is taken out
RemoveLine(k) ==
  /\ Len(history) < MaxEdits
  /\ k \in 1..Len(fileLines)
  /\ fileLines' = Without(fileLines, k)
  /\ history' = Append(history,
                       Call("removeLine", NoTask, k, 0, TRUE, fileLines))
  /\ UNCHANGED <<settings, startDay, daysToSchedule, now, tasks, sortedTasks,
                 availableSlots, pc, idx, pass1Placed, findSlots, findNeeded,
                 findResult, op, nextId, persistIdx, updatedCount, persistLog,
                 scheduledTasks, timeSlots, runs>>

\* one scheduleAllTasks run over a note that is edited meanwhile
NextEdit ==
  \/ RaceBegin(1)
  \/ RaceRead(1)
  \/ RaceModify(1)
  \/ RaceReturn(1)
  \/ \E k \in 1..(MaxLines + MaxEdits) : InsertLine(k)
  \/ \E k \in 1..(MaxLines + MaxEdits) : RemoveLine(k)

SpecEdit == InitRace /\ [][NextEdit]_vars

\* the line is the one fromLine made the task of
ParsedFrom(line, task) ==
  /\ line.task
  /\ ~line.checked
  /\ task = [fromLine(line, task.lineNumber, task.id, settings)
               EXCEPT !.scheduledTime = task.scheduledTime]

\* an updateTaskInFile call of the step wrote the note
WroteTask(r) ==
  /\ runs[r].pc = "read"
  /\ runs'[r].updatedCount = runs[r].updatedCount + 1

\* C30: a write of updateTaskInFile puts the task's text only where the line
\* stands from which the task was parsed, also when a line was inserted or
\* removed above the task after collectTasks: the line that the call
\* replaces in the note it has read is the task's own line.
C30_OnlyOwnLineReplaced ==
  [][\A r \in Runs :
       WroteTask(r) =>
         LET task == runs[r].scheduledTasks[runs[r].i]
         IN ParsedFrom(runs[r].content[task.lineNumber + 1], task)]_vars

====
